---- MODULE Spec2Model ----
(***************************************************************************)
(* A model of util/parser.c: the option-token matcher (match_one,          *)
(* match_token), the numeric extractors (match_number and its three entry  *)
(* points), the wildcard matcher (match_wildcard) and the bounded copy     *)
(* (match_strlcpy).                                                        *)
(*                                                                         *)
(* A C string is a sequence of one-character strings; a char pointer into  *)
(* it is a 1-based index, so that index Len(str) + 1 is the terminating    *)
(* NUL and 0 is the NULL pointer.  int is IntBits wide and long twice as   *)
(* wide (the LP64 relation between int and long); the widths are scaled    *)
(* down so that every value of the range can be enumerated.                *)
(***************************************************************************)
EXTENDS Integers, Sequences, FiniteSets, TLC

VARIABLES pc, fn, subject, pattern, table, args, oob, sub, mallocOk, result,
          dest, size, ret

vars == <<pc, fn, subject, pattern, table, args, oob, sub, mallocOk, result,
          dest, size, ret>>

(***************************************************************************)
(* Bounds of the model.                                                    *)
(***************************************************************************)
IntBits == 4
MaxPieces == 2
MaxSubjLen == 3
MaxNumSubjLen == 3
MaxTable == 2
MaxNumLen == 3
MaxWildLen == 3
MaxCopyLen == 3

(***************************************************************************)
(* Program constants.                                                      *)
(***************************************************************************)
MAX_OPT_ARGS == 6

Pow2(n) == 2 ^ n
LongBits == 2 * IntBits
INT_MAX == Pow2(IntBits - 1) - 1
INT_MIN == -Pow2(IntBits - 1)
LONG_MAX == Pow2(LongBits - 1) - 1
LONG_MIN == -Pow2(LongBits - 1)
ULONG_MAX == Pow2(LongBits) - 1

EINVAL == 22
ERANGE == 34
ENOMEM == 12

NUL == "NUL"
NULLPTR == 0
\* The NULL pattern of the entry that ends a table.
NULLPAT == <<"(null)">>

Min(S) == CHOOSE x \in S : \A y \in S : x <= y

(***************************************************************************)
(* The C library functions the code calls.                                 *)
(***************************************************************************)
CharAt(str, i) == IF i >= 1 /\ i <= Len(str) THEN str[i] ELSE NUL

strlen(str, i) == IF i > Len(str) THEN 0 ELSE Len(str) - i + 1

strchr(str, i, c) ==
    LET hits == {j \in i..Len(str) : str[j] = c}
    IN  IF hits = {} THEN NULLPTR ELSE Min(hits)

\* strcmp(a + ai, b + bi) == 0
strcmp_eq(a, ai, b, bi) ==
    /\ strlen(a, ai) = strlen(b, bi)
    /\ \A k \in 0..(strlen(a, ai) - 1) : CharAt(a, ai + k) = CharAt(b, bi + k)

\* strncmp(a + ai, b + bi, n) == 0: the first n characters agree, the
\* comparison ending at a NUL of a.
strncmp_eq(a, ai, b, bi, n) ==
    \A k \in 0..(n - 1) :
        (\A j \in 0..(k - 1) : CharAt(a, ai + j) # NUL)
            => CharAt(a, ai + k) = CharAt(b, bi + k)

isdigit(c) == c \in {"0", "1", "2", "3", "4", "5", "6", "7", "8", "9"}

isspace(c) == c = " "

HexDigits == <<"0", "1", "2", "3", "4", "5", "6", "7", "8", "9",
               "a", "b", "c", "d", "e", "f">>

\* The value of a digit character; 99 for a character that is no digit.
DigitVal(c) ==
    IF \E v \in 1..16 : HexDigits[v] = c
    THEN (CHOOSE v \in 1..16 : HexDigits[v] = c) - 1
    ELSE 99

RECURSIVE SkipSpace(_, _)
SkipSpace(str, i) ==
    IF isspace(CharAt(str, i)) THEN SkipSpace(str, i + 1) ELSE i

RECURSIVE DigitsEnd(_, _, _)
DigitsEnd(str, i, base) ==
    IF DigitVal(CharAt(str, i)) < base THEN DigitsEnd(str, i + 1, base) ELSE i

\* The magnitude of the digits str[i..e-1], kept at ULONG_MAX + 1 once it
\* has passed ULONG_MAX.
RECURSIVE Accumulate(_, _, _, _, _)
Accumulate(str, i, e, base, acc) ==
    IF i >= e THEN acc
    ELSE LET v == acc * base + DigitVal(str[i])
         IN  Accumulate(str, i + 1, e, base,
                        IF v > ULONG_MAX THEN ULONG_MAX + 1 ELSE v)

\* The scan common to strtol and strtoul on str + i in base base0: white
\* space, a sign, a 0x prefix (base 0 or 16), the digits.  end = i when no
\* conversion could be made.
ScanNumber(str, i, base0) ==
    LET j1 == SkipSpace(str, i)
        c == CharAt(str, j1)
        j2 == IF c \in {"-", "+"} THEN j1 + 1 ELSE j1
        hasPrefix == /\ base0 \in {0, 16}
                     /\ CharAt(str, j2) = "0"
                     /\ CharAt(str, j2 + 1) \in {"x", "X"}
                     /\ DigitVal(CharAt(str, j2 + 2)) < 16
        base == IF base0 # 0 THEN base0
                ELSE IF hasPrefix THEN 16
                ELSE IF CharAt(str, j2) = "0" THEN 8
                ELSE 10
        j3 == IF hasPrefix THEN j2 + 2 ELSE j2
        j4 == DigitsEnd(str, j3, base)
    IN  IF j4 = j3
        THEN [end |-> i, neg |-> FALSE, mag |-> 0]
        ELSE [end |-> j4, neg |-> c = "-",
              mag |-> Accumulate(str, j3, j4, base, 0)]

\* strtol: the value saturates at LONG_MIN and LONG_MAX.
strtol(str, i, base0) ==
    LET r == ScanNumber(str, i, base0)
    IN  [end |-> r.end,
         val |-> IF r.neg
                 THEN (IF r.mag > -LONG_MIN THEN LONG_MIN ELSE -r.mag)
                 ELSE (IF r.mag > LONG_MAX THEN LONG_MAX ELSE r.mag)]

\* strtoul: the value saturates at ULONG_MAX; a negated value wraps.
strtoul(str, i, base0) ==
    LET r == ScanNumber(str, i, base0)
    IN  [end |-> r.end,
         val |-> IF r.mag > ULONG_MAX THEN ULONG_MAX
                 ELSE IF r.neg THEN (ULONG_MAX + 1 - r.mag) % (ULONG_MAX + 1)
                 ELSE r.mag]

\* The conversion of an unsigned long to int (len = strtoul(...)).
ToInt(v) ==
    LET m == v % Pow2(IntBits)
    IN  IF m > INT_MAX THEN m - Pow2(IntBits) ELSE m

\* The conversion of an int to size_t (len > str_len).
ToSizeT(v) == IF v < 0 THEN v + ULONG_MAX + 1 ELSE v

(***************************************************************************)
(* match_one                                                               *)
(***************************************************************************)
NoSpan == [from |-> NULLPTR, to |-> NULLPTR]
NoArgs == [i \in 0..(MAX_OPT_ARGS - 1) |-> NoSpan]

\* A store to args[i].f; one at an index outside the array is recorded.
Store(st, i, f, v) ==
    IF i \in DOMAIN st.args
    THEN [st EXCEPT !.args[i][f] = v]
    ELSE [st EXCEPT !.oob = TRUE]

Fail(st) == [st EXCEPT !.ret = 0]

\* args[argc].to = v; ...; s = args[argc].to;
StoreTo(st, v) == [Store(st, st.argc, "to", v) EXCEPT !.cur = v, !.ret = 1]

\* The capacity check letting one placeholder too many through.
CapacityReachedLate(argc) == argc > MAX_OPT_ARGS

\* if (argc >= MAX_OPT_ARGS) return 0;
CapacityReached(argc) == argc >= MAX_OPT_ARGS

\* The span length without the clamp to the remaining subject.
StrSpanLenUnclamped(len, str_len) == IF len = -1 THEN str_len ELSE len

\* case 's': the length of the span in a remaining subject of str_len
\* characters, of which there is at least one.
StrSpanLen(len, str_len) ==
    IF len = -1 \/ ToSizeT(len) > str_len THEN str_len ELSE len

\* The check of an empty remaining subject left out.
EmptyRestIgnored(str_len) == FALSE

\* if (str_len == 0) return 0;
EmptyRest(str_len) == str_len = 0

\* '%d' and '%u' scanned in base 10 instead of the automatic base.
KindBaseDecimal(kind) ==
    CASE kind = "d" -> 10
      [] kind = "u" -> 10
      [] kind = "o" -> 8
      [] kind = "x" -> 16

\* The base the numeric placeholder of a kind is scanned in.
KindBase(kind) ==
    CASE kind = "d" -> 0
      [] kind = "u" -> 0
      [] kind = "o" -> 8
      [] kind = "x" -> 16

\* The remaining literal compared as a prefix of the remaining subject.
TailMatchesPrefix(p, pi, s, si) == strncmp_eq(p, pi, s, si, strlen(p, pi))

\* return strcmp(p, s) == 0;
TailMatches(p, pi, s, si) == strcmp_eq(p, pi, s, si)

\* case 's', in a remaining subject of str_len characters.
StrPlaceholder(si, len, str_len, st) ==
    IF EmptyRest(str_len) THEN Fail(st)
    ELSE StoreTo(st, si + StrSpanLen(len, str_len))

\* case 'd', 'u', 'o', 'x' and the label num: end is where the scan ended.
NumPlaceholder(si, end, st) ==
    IF end = si THEN Fail(StoreTo(st, end)) ELSE StoreTo(st, end)

\* switch (*p++), after args[argc].from = s.
Switch(s, si, kind, len, st) ==
    IF kind = "s" THEN StrPlaceholder(si, len, strlen(s, si), st)
    ELSE IF kind \in {"d", "u", "o", "x"}
    THEN NumPlaceholder(si, ScanNumber(s, si, KindBase(kind)).end, st)
    ELSE Fail(st)

\* One placeholder: the capacity check, the store of from, the switch on
\* the kind.  si is the cursor in s, pk the index of the kind character.
\* The result has ret = 1 when the loop goes on.
Placeholder(s, p, si, pk, len, st) ==
    IF CapacityReached(st.argc) THEN Fail(st)
    ELSE Switch(s, si, CharAt(p, pk), len, Store(st, st.argc, "from", si))

\* if (isdigit(*p)) len = strtoul(p, (char **) &p, 10); with len = -1
\* before.  end is where p is left.
Width(p, p1) ==
    IF isdigit(CharAt(p, p1))
    THEN [end |-> strtoul(p, p1, 10).end, len |-> ToInt(strtoul(p, p1, 10).val)]
    ELSE [end |-> p1, len |-> -1]

\* The while loop, from cursor si in s and pi in p.  st holds args, argc,
\* whether a store went outside args, the cursor a placeholder leaves in s
\* and the value returned.
RECURSIVE MatchLoop(_, _, _, _, _)

\* s = args[argc].to; argc++; and the loop again, unless the placeholder
\* returned 0.  pn is the cursor in p.
Advance(s, p, pn, st) ==
    IF st.ret = 0 THEN st
    ELSE MatchLoop(s, p, st.cur, pn, [st EXCEPT !.argc = st.argc + 1])

Conversion(s, p, s1, w, st) ==
    Advance(s, p, w.end + 1, Placeholder(s, p, s1, w.end, w.len, st))

\* After the literal text before the '%': s1 and p1 are s and p as lines
\* 45 and 46 leave them.
AfterPercent(s, p, s1, p1, st) ==
    IF ~isdigit(CharAt(p, p1)) /\ CharAt(p, p1) = "%"
    THEN IF CharAt(s, s1) # "%" THEN Fail(st)
         ELSE MatchLoop(s, p, s1 + 1, p1 + 1, st)
    ELSE Conversion(s, p, s1, Width(p, p1), st)

\* meta = strchr(p, '%') and what follows it.
Iteration(s, p, si, pi, meta, st) ==
    IF meta = NULLPTR
    THEN [st EXCEPT !.ret = IF TailMatches(p, pi, s, si) THEN 1 ELSE 0]
    ELSE IF ~strncmp_eq(p, pi, s, si, meta - pi) THEN Fail(st)
    ELSE AfterPercent(s, p, si + (meta - pi), meta + 1, st)

MatchLoop(s, p, si, pi, st) == Iteration(s, p, si, pi, strchr(p, pi, "%"), st)

\* match_one(s, p, args); p = NULLPTR is the NULL pattern.
match_one(s, p, a) ==
    LET st == [args |-> a, argc |-> 0, oob |-> FALSE, cur |-> 1, ret |-> 1]
    IN  IF p = NULLPAT THEN st ELSE MatchLoop(s, p, 1, 1, st)

(***************************************************************************)
(* The inputs.                                                             *)
(***************************************************************************)
SeqsUpTo(S, n) == UNION {[1..k -> S] : k \in 0..n}

RECURSIVE Flatten(_)
Flatten(ps) == IF ps = <<>> THEN <<>> ELSE Head(ps) \o Flatten(Tail(ps))

\* n >= 0 written in a base, as printf does.
RECURSIVE FormatNat(_, _)
FormatNat(n, base) ==
    IF n < base THEN <<HexDigits[n + 1]>>
    ELSE FormatNat(n \div base, base) \o <<HexDigits[(n % base) + 1]>>

\* n written in a base, a negative one with a leading '-'.
Format(n, base) ==
    IF n < 0 THEN <<"-">> \o FormatNat(-n, base) ELSE FormatNat(n, base)

\* Literal text and string placeholders: no width, widths 0 and 2, a width
\* that is 0 as an int, an escaped '%', an unknown kind.
StrPieces ==
    {<<"a">>, <<"a", "=">>, <<"%", "s">>, <<"%", "0", "s">>,
     <<"%", "2", "s">>, <<"%", "%">>, <<"%", "q">>,
     <<"%">> \o FormatNat(Pow2(IntBits), 10) \o <<"s">>}
StrChars == {"a", "=", "%"}

\* The numeric placeholders and a literal that is a hexadecimal digit.
NumPieces == {<<"%", "d">>, <<"%", "u">>, <<"%", "o">>, <<"%", "x">>, <<"a">>}
NumChars == {"-", "0", "8", "x", "a", " "}

\* Patterns of up to MAX_OPT_ARGS + 1 placeholders and escapes.
CapPieces == {<<"%", "1", "s">>, <<"%", "%">>}
CapChars == {"a", "%"}

PatternsOf(pieces, n) == {Flatten(ps) : ps \in SeqsUpTo(pieces, n)}

MatchInputs ==
    (PatternsOf(StrPieces, MaxPieces) \X SeqsUpTo(StrChars, MaxSubjLen))
    \cup (PatternsOf(NumPieces, MaxPieces) \X SeqsUpTo(NumChars, MaxNumSubjLen))
    \cup (PatternsOf(CapPieces, MAX_OPT_ARGS + 1)
             \X SeqsUpTo(CapChars, MAX_OPT_ARGS + 1))

(***************************************************************************)
(* The specification of match_one: one call on a subject and a pattern.    *)
(***************************************************************************)
InitOne ==
    /\ \E in \in MatchInputs : pattern = in[1] /\ subject = in[2]
    /\ pc = "call" /\ fn = "match_one"
    /\ table = <<>> /\ args = NoArgs /\ oob = FALSE /\ sub = NoSpan
    /\ mallocOk = TRUE /\ result = 0 /\ dest = <<>> /\ size = 0 /\ ret = 0

CallMatchOne ==
    /\ pc = "call" /\ fn = "match_one"
    /\ LET r == match_one(subject, pattern, args)
       IN  args' = r.args /\ oob' = r.oob /\ ret' = r.ret
    /\ pc' = "done"
    /\ UNCHANGED <<fn, subject, pattern, table, sub, mallocOk, result, dest, size>>

NextOne == CallMatchOne

SpecOne == InitOne /\ [][NextOne]_vars


(***************************************************************************)
(* match_token                                                             *)
(***************************************************************************)
TOK_ERR == -1

\* The for loop from entry i of the table.  Reading the entry after the
\* last one is undefined behaviour (ub).
RECURSIVE MatchTokenFrom(_, _, _, _)
\* r is what match_one returned on entry i.
MatchTokenStep(s, tbl, i, r) ==
    IF r.ret # 0
    THEN [ub |-> FALSE, token |-> tbl[i].token, args |-> r.args]
    ELSE MatchTokenFrom(s, tbl, i + 1, r.args)

MatchTokenFrom(s, tbl, i, a) ==
    IF i > Len(tbl) THEN [ub |-> TRUE, token |-> TOK_ERR, args |-> a]
    ELSE MatchTokenStep(s, tbl, i, match_one(s, tbl[i].pattern, a))

\* The scan starting at the second entry.
match_token_skip(s, tbl, a) == MatchTokenFrom(s, tbl, 2, a)

\* for (p = table; !match_one(s, p->pattern, args); p++)
match_token(s, tbl, a) == MatchTokenFrom(s, tbl, 1, a)

\* The patterns of the tables: a bare option, options with a string, a
\* bounded string and a number, and a pattern that takes any text.
TablePatterns ==
    {<<"a">>, <<"a", "=", "%", "s">>, <<"a", "=", "%", "d">>,
     <<"a", "=", "%", "2", "s">>, <<"%", "s">>}
TokChars == {"a", "=", "8"}

\* A table: entries with the token ids 1, 2, ... and the entry that ends it.
TableOf(ps) ==
    [i \in 1..(Len(ps) + 1) |->
        IF i <= Len(ps) THEN [pattern |-> ps[i], token |-> i]
        ELSE [pattern |-> NULLPAT, token |-> TOK_ERR]]

Tables == {TableOf(ps) : ps \in SeqsUpTo(TablePatterns, MaxTable)}

TokenIds(tbl) == {tbl[i].token : i \in 1..Len(tbl)}

InitToken ==
    /\ table \in Tables
    /\ subject \in SeqsUpTo(TokChars, MaxSubjLen)
    /\ pc = "call" /\ fn = "match_token"
    /\ pattern = <<>> /\ args = NoArgs /\ oob = FALSE /\ sub = NoSpan
    /\ mallocOk = TRUE /\ result = 0 /\ dest = <<>> /\ size = 0 /\ ret = 0

CallMatchToken ==
    /\ pc = "call" /\ fn = "match_token"
    /\ LET r == match_token(subject, table, args)
       IN  /\ args' = r.args
           /\ IF r.ub THEN ret' \in TokenIds(table) \cup {0}
                      ELSE ret' = r.token
    /\ pc' = "done"
    /\ UNCHANGED <<fn, subject, pattern, table, oob, sub, mallocOk, result,
                   dest, size>>

NextToken == CallMatchToken

SpecToken == InitToken /\ [][NextToken]_vars

(***************************************************************************)
(* match_number, match_int, match_octal, match_hex                         *)
(***************************************************************************)
\* if (endp == buf)
NothingParsed(endp) == endp = 1

\* The range check without its lower bound.
OutOfIntUpper(val) == val > INT_MAX

\* else if (val < (long)INT_MIN || val > (long)INT_MAX)
OutOfInt(val) == val < INT_MIN \/ val > INT_MAX

\* memcpy(buf, s->from, len); buf[len] = '\0';
ScratchCopy(str, s) == SubSeq(str, s.from, s.to - 1)

\* str is the string s points into, res the value of *result at the call,
\* ok whether malloc succeeds.
match_number(str, s, res, base, ok) ==
    IF ~ok THEN [ret |-> -ENOMEM, result |-> res]
    ELSE LET r == strtol(ScratchCopy(str, s), 1, base)
         IN  IF NothingParsed(r.end) THEN [ret |-> -EINVAL, result |-> res]
             ELSE IF OutOfInt(r.val) THEN [ret |-> -ERANGE, result |-> res]
             ELSE [ret |-> 0, result |-> r.val]

match_int(str, s, res, ok) == match_number(str, s, res, 0, ok)

\* match_octal passing the automatic base.
match_octal_auto(str, s, res, ok) == match_number(str, s, res, 0, ok)

match_octal(str, s, res, ok) == match_number(str, s, res, 8, ok)

match_hex(str, s, res, ok) == match_number(str, s, res, 16, ok)

NumberChars == {"-", "0", "1", "8", "f", "x", " "}
FormatBases == {8, 10, 16}

\* The texts of the substrings: any text, and the integers from INT_MIN - 1
\* to INT_MAX + 1 written in base 8, 10 and 16.
NumberTexts ==
    SeqsUpTo(NumberChars, MaxNumLen)
    \cup {Format(n, b) : n \in (INT_MIN - 1)..(INT_MAX + 1), b \in FormatBases}

\* The substring is followed in its string by nothing or by a digit.
NumberSuffixes == {<<>>, <<"1">>}

InitNumber ==
    /\ \E t \in NumberTexts, x \in NumberSuffixes :
          /\ subject = t \o x
          /\ sub = [from |-> 1, to |-> Len(t) + 1]
    /\ mallocOk \in BOOLEAN
    /\ result \in {0, 5}
    /\ pc = "call" /\ fn = "none"
    /\ pattern = <<>> /\ table = <<>> /\ args = NoArgs /\ oob = FALSE
    /\ dest = <<>> /\ size = 0 /\ ret = 0

Returned(name, r) ==
    /\ pc = "call"
    /\ pc' = "done" /\ fn' = name
    /\ ret' = r.ret /\ result' = r.result
    /\ UNCHANGED <<subject, pattern, table, args, oob, sub, mallocOk, dest, size>>

CallMatchInt == Returned("match_int", match_int(subject, sub, result, mallocOk))

CallMatchOctal ==
    Returned("match_octal", match_octal(subject, sub, result, mallocOk))

CallMatchHex == Returned("match_hex", match_hex(subject, sub, result, mallocOk))

NextNumber == CallMatchInt \/ CallMatchOctal \/ CallMatchHex

SpecNumber == InitNumber /\ [][NextNumber]_vars

(***************************************************************************)
(* match_wildcard                                                          *)
(***************************************************************************)
\* The while loop and the return after it: s and p are the cursors, str
\* and pat the place to go back to after the last '*', star whether there
\* is one.
RECURSIVE WildLoop(_, _, _, _, _, _, _)
WildLoop(gp, gs, s, p, str, pat, star) ==
    IF CharAt(gs, s) = NUL
    THEN LET p1 == IF CharAt(gp, p) = "*" THEN p + 1 ELSE p
         IN  CharAt(gp, p1) = NUL
    ELSE IF CharAt(gp, p) = "?"
    THEN WildLoop(gp, gs, s + 1, p + 1, str, pat, star)
    ELSE IF CharAt(gp, p) = "*"
    THEN IF CharAt(gp, p + 1) = NUL THEN TRUE
         ELSE WildLoop(gp, gs, s, p + 1, s, p + 1, TRUE)
    ELSE IF CharAt(gs, s) = CharAt(gp, p)
    THEN WildLoop(gp, gs, s + 1, p + 1, str, pat, star)
    ELSE IF ~star THEN FALSE
    ELSE WildLoop(gp, gs, str + 1, pat, str + 1, pat, star)

match_wildcard(gp, gs) == WildLoop(gp, gs, 1, 1, 1, 1, FALSE)

GlobChars == {"a", "b", "?", "*"}
WildChars == {"a", "b"}

InitWildcard ==
    /\ pattern \in SeqsUpTo(GlobChars, MaxWildLen)
    /\ subject \in SeqsUpTo(WildChars, MaxWildLen)
    /\ pc = "call" /\ fn = "match_wildcard"
    /\ table = <<>> /\ args = NoArgs /\ oob = FALSE /\ sub = NoSpan
    /\ mallocOk = TRUE /\ result = 0 /\ dest = <<>> /\ size = 0 /\ ret = 0

CallMatchWildcard ==
    /\ pc = "call" /\ fn = "match_wildcard"
    /\ ret' = IF match_wildcard(pattern, subject) THEN 1 ELSE 0
    /\ pc' = "done"
    /\ UNCHANGED <<fn, subject, pattern, table, args, oob, sub, mallocOk,
                   result, dest, size>>

NextWildcard == CallMatchWildcard

SpecWildcard == InitWildcard /\ [][NextWildcard]_vars

(***************************************************************************)
(* match_strlcpy                                                           *)
(***************************************************************************)
\* What the bytes of dest hold before the call.
FILL == "#"

\* The truncation test with > for >=.
CopyLenLate(r, sz) == IF r > sz THEN sz - 1 ELSE r

\* size_t len = ret >= size ? size - 1 : ret;
CopyLen(r, sz) == IF r >= sz THEN sz - 1 ELSE r

\* size_t ret = src->to - src->from;
SrcLen(s) == s.to - s.from

\* d is the buffer of sz bytes, indexed from 0; a store outside it is
\* recorded in oob.
match_strlcpy(d, str, s, sz) ==
    LET r == SrcLen(s)
        len == CopyLen(r, sz)
        copied == [i \in DOMAIN d |->
                      IF i < len THEN str[s.from + i]
                      ELSE IF i = len THEN NUL
                      ELSE d[i]]
    IN  IF sz # 0
        THEN [ret |-> r, dest |-> copied, oob |-> len \notin DOMAIN d]
        ELSE [ret |-> r, dest |-> d, oob |-> FALSE]

CopyChars == {"a", "b"}

InitCopy ==
    /\ subject \in SeqsUpTo(CopyChars, MaxCopyLen)
    /\ \E f \in 1..(Len(subject) + 1), e \in 1..(Len(subject) + 1) :
          f <= e /\ sub = [from |-> f, to |-> e]
    /\ size \in 0..(MaxCopyLen + 1)
    /\ dest = [i \in 0..(size - 1) |-> FILL]
    /\ pc = "call" /\ fn = "match_strlcpy"
    /\ pattern = <<>> /\ table = <<>> /\ args = NoArgs /\ oob = FALSE
    /\ mallocOk = TRUE /\ result = 0 /\ ret = 0

CallMatchStrlcpy ==
    /\ pc = "call" /\ fn = "match_strlcpy"
    /\ LET r == match_strlcpy(dest, subject, sub, size)
       IN  ret' = r.ret /\ dest' = r.dest /\ oob' = r.oob
    /\ pc' = "done"
    /\ UNCHANGED <<fn, subject, pattern, table, args, sub, mallocOk, result, size>>

NextCopy == CallMatchStrlcpy

SpecCopy == InitCopy /\ [][NextCopy]_vars


(***************************************************************************)
(* Reference definitions: what the pattern language, the number syntax and *)
(* the wildcard language mean, stated without the code's scans.            *)
(***************************************************************************)
Range(f) == {f[i] : i \in DOMAIN f}

Max(S) == CHOOSE x \in S : \A y \in S : x >= y

Done(name) == pc = "done" /\ fn = name

\* The value of a sequence of digits in base b.
RECURSIVE RefNat(_, _)
RefNat(t, b) ==
    IF t = <<>> THEN 0
    ELSE RefNat(SubSeq(t, 1, Len(t) - 1), b) * b + DigitVal(t[Len(t)])

RefDigits(t, b) == t # <<>> /\ \A i \in 1..Len(t) : DigitVal(t[i]) < b

RefHasPrefix(t) == Len(t) >= 3 /\ t[1] = "0" /\ t[2] \in {"x", "X"}

\* A number without white space and sign, for strtol's base argument b0.
RefBody(t, b0) ==
    CASE b0 = 0 -> \/ RefDigits(t, 10) /\ t[1] # "0"
                   \/ RefDigits(t, 8) /\ t[1] = "0"
                   \/ RefHasPrefix(t) /\ RefDigits(SubSeq(t, 3, Len(t)), 16)
      [] b0 = 16 -> \/ RefDigits(t, 16)
                    \/ RefHasPrefix(t) /\ RefDigits(SubSeq(t, 3, Len(t)), 16)
      [] OTHER -> RefDigits(t, b0)

RefSigned(t, b0) ==
    \/ RefBody(t, b0)
    \/ t # <<>> /\ t[1] \in {"-", "+"} /\ RefBody(Tail(t), b0)

\* A number as strtol and strtoul take it: white space, a sign, the body.
RefToken(t, b0) ==
    \E w \in 0..Len(t) :
        /\ \A i \in 1..w : t[i] = " "
        /\ RefSigned(SubSeq(t, w + 1, Len(t)), b0)

\* The end of the longest token of s that starts at i; i when there is
\* none.
RefLongest(s, i, b0) ==
    LET E == {e \in (i + 1)..(Len(s) + 1) : RefToken(SubSeq(s, i, e - 1), b0)}
    IN  IF E = {} THEN i ELSE Max(E)

\* The value of a token.
RefBodyValue(t, b0) ==
    IF b0 \in {0, 16} /\ RefHasPrefix(t) THEN RefNat(SubSeq(t, 3, Len(t)), 16)
    ELSE IF b0 = 0 THEN RefNat(t, IF t[1] = "0" THEN 8 ELSE 10)
    ELSE RefNat(t, b0)

RefSignedValue(t, b0) ==
    IF t[1] = "-" THEN -RefBodyValue(Tail(t), b0)
    ELSE IF t[1] = "+" THEN RefBodyValue(Tail(t), b0)
    ELSE RefBodyValue(t, b0)

RECURSIVE RefValue(_, _)
RefValue(t, b0) ==
    IF t[1] = " " THEN RefValue(Tail(t), b0) ELSE RefSignedValue(t, b0)

\* The placeholders of a pattern from index i on, left to right: "%%" is
\* no placeholder; a '%' with an optional decimal width and a kind is one.
RECURSIVE RefPlaceholders(_, _)
RefPlaceholders(p, i) ==
    IF i > Len(p) THEN <<>>
    ELSE IF p[i] # "%" THEN RefPlaceholders(p, i + 1)
    ELSE IF CharAt(p, i + 1) = "%" THEN RefPlaceholders(p, i + 2)
    ELSE LET k == Min({j \in (i + 1)..(Len(p) + 1) : ~isdigit(CharAt(p, j))})
         IN  <<[kind |-> CharAt(p, k), hasWidth |-> k > i + 1,
                width |-> RefNat(SubSeq(p, i + 1, k - 1), 10)]>>
             \o RefPlaceholders(p, k + 1)

Placeholders(p) == RefPlaceholders(p, 1)

\* Glob matching of the whole of s by the whole of p.
RECURSIVE Glob(_, _)
Glob(p, s) ==
    IF p = <<>> THEN s = <<>>
    ELSE IF Head(p) = "*"
    THEN Glob(Tail(p), s) \/ (s # <<>> /\ Glob(p, Tail(s)))
    ELSE /\ s # <<>>
         /\ Head(p) = "?" \/ Head(p) = Head(s)
         /\ Glob(Tail(p), Tail(s))


(***************************************************************************)
(* The claims.                                                             *)
(***************************************************************************)
Matches(s, p) == match_one(s, p, NoArgs).ret # 0

FirstMatching(s, tbl) == Min({i \in 1..Len(tbl) : Matches(s, tbl[i].pattern)})

\* C1: on a table that ends with the NULL pattern, match_token returns the
\* token id of the first entry, in table order, whose pattern matches the
\* subject under match_one (the id of the last entry when no other entry
\* matches), which is an id of the table.
C1_FirstMatchingEntry ==
    Done("match_token") =>
        /\ ret = table[FirstMatching(subject, table)].token
        /\ ret \in TokenIds(table)

\* An entry matched after an earlier entry had failed.
C1_Witness ==
    /\ Done("match_token")
    /\ Len(table) = 3 /\ ret = 2
    /\ ~Matches(subject, table[1].pattern)

\* C2: a pattern without '%' matches a subject if and only if the two are
\* equal.
C2_LiteralExact ==
    (Done("match_one") /\ "%" \notin Range(pattern)) =>
        (ret = 1 <=> subject = pattern)

\* A subject that starts with the pattern and is longer is rejected.
C2_Witness ==
    /\ Done("match_one")
    /\ "%" \notin Range(pattern) /\ pattern # <<>>
    /\ Len(subject) > Len(pattern)
    /\ SubSeq(subject, 1, Len(pattern)) = pattern
    /\ ret = 0

\* C3: match_wildcard returns true if and only if the whole subject matches
\* the whole pattern as a glob, where '?' is one character and each '*' is
\* zero or more characters.
C3_WildcardIsGlob ==
    Done("match_wildcard") => (ret = 1 <=> Glob(pattern, subject))

Extractor(b) ==
    CASE b = 10 -> "match_int" [] b = 8 -> "match_octal" [] b = 16 -> "match_hex"

SubText == SubSeq(subject, sub.from, sub.to - 1)

\* C4: an integer of the int range, written in base 10, 8 or 16 (a negative
\* one with a leading '-'), is extracted by match_int, match_octal or
\* match_hex with return value 0 and *result the integer; INT_MAX + 1 and
\* INT_MIN - 1 make the extractor return -ERANGE.
C4_RoundTrip ==
    \A b \in FormatBases :
        (Done(Extractor(b)) /\ mallocOk) =>
            /\ \A n \in INT_MIN..INT_MAX :
                  SubText = Format(n, b) => (ret = 0 /\ result = n)
            /\ \A n \in {INT_MIN - 1, INT_MAX + 1} :
                  SubText = Format(n, b) => ret = -ERANGE

\* INT_MIN - 1 in base 16, followed in its string by a digit, was handed
\* to match_hex.
C4_Witness ==
    /\ Done("match_hex") /\ mallocOk
    /\ SubText = Format(INT_MIN - 1, 16)
    /\ Len(subject) > Len(SubText)
    /\ ret = -ERANGE

\* C5: match_strlcpy returns the length L of the substring; with size > 0
\* it writes the first min(L, size - 1) characters of the substring to dest
\* and a NUL after them and leaves the later bytes of dest as they were;
\* with size = 0 it writes nothing.
C5_BoundedCopy ==
    Done("match_strlcpy") =>
        LET L == sub.to - sub.from
            m == IF L < size - 1 THEN L ELSE size - 1
        IN  /\ ret = L
            /\ ~oob
            /\ DOMAIN dest = 0..(size - 1)
            /\ size > 0 =>
                  /\ \A i \in 0..(m - 1) : dest[i] = subject[sub.from + i]
                  /\ dest[m] = NUL
                  /\ \A i \in (m + 1)..(size - 1) : dest[i] = FILL

\* A substring longer than the buffer was cut, with bytes of the buffer
\* left over in another.
C5_Witness ==
    /\ Done("match_strlcpy")
    /\ sub.to - sub.from = MaxCopyLen /\ size = 2
    /\ ret = MaxCopyLen /\ dest[1] = NUL

\* C6: a pattern with more than MAX_OPT_ARGS placeholders ("%%" not
\* counted) never matches, and match_one never stores to an element of
\* args at an index >= MAX_OPT_ARGS.
C6_Capacity ==
    Done("match_one") =>
        /\ ~oob
        /\ Len(Placeholders(pattern)) > MAX_OPT_ARGS => ret = 0

\* MAX_OPT_ARGS placeholders of a longer pattern had matched when the
\* attempt was given up.
C6_Witness ==
    /\ Done("match_one")
    /\ Len(Placeholders(pattern)) > MAX_OPT_ARGS
    /\ args[MAX_OPT_ARGS - 1].to # NULLPTR
    /\ "%" \in Range(subject)
    /\ ret = 0

\* The spans of the '%s' placeholders without a width or with a width of
\* the set W are not empty.
StrSpansNonEmpty(W) ==
    (Done("match_one") /\ ret = 1) =>
        \A i \in 1..Len(Placeholders(pattern)) :
            (/\ Placeholders(pattern)[i].kind = "s"
             /\ Placeholders(pattern)[i].hasWidth
                    => Placeholders(pattern)[i].width \in W)
                => args[i - 1].from < args[i - 1].to

\* C7 as claimed: in a successful match every span of a '%s' placeholder,
\* with or without a field width, width 0 included, is not empty.
C7_AnyWidth == StrSpansNonEmpty(Nat)

\* C7: in a successful match every span of a '%s' placeholder that has no
\* field width, or a field width from 1 to INT_MAX, is not empty.
C7_NonZeroWidth == StrSpansNonEmpty(1..INT_MAX)

\* "a=%2s" matched "a=a" with a span of one character.
C7_Witness ==
    /\ Done("match_one") /\ ret = 1
    /\ pattern = <<"a", "=", "%", "2", "s">> /\ subject = <<"a", "=", "a">>
    /\ args[0].from < args[0].to

\* The base of the token of a kind as C9 claims it: 10 for '%d' and '%u', 8
\* for '%o', 16 for '%x'.
ClaimedBase(kind) ==
    CASE kind = "d" -> 10
      [] kind = "u" -> 10
      [] kind = "o" -> 8
      [] kind = "x" -> 16

NumericKinds == {"d", "u", "o", "x"}

\* The span of every numeric placeholder is the longest token at its start
\* in the base bases gives its kind, and is not empty.
NumericSpans(bases) ==
    (Done("match_one") /\ ret = 1) =>
        \A i \in 1..Len(Placeholders(pattern)) :
            Placeholders(pattern)[i].kind \in NumericKinds =>
                /\ args[i - 1].to > args[i - 1].from
                /\ args[i - 1].to =
                      RefLongest(subject, args[i - 1].from,
                                 bases[Placeholders(pattern)[i].kind])

\* C9 as claimed: the span of a numeric placeholder is the longest decimal
\* ('%d', '%u'), octal ('%o') or hexadecimal ('%x') token at the cursor and
\* is not empty, so that the span of '%d' and '%u' holds nothing but a
\* decimal number.
C9_DecimalSpans == NumericSpans([k \in NumericKinds |-> ClaimedBase(k)])

\* C9: the span of a numeric placeholder is the longest text at the cursor
\* that strtol and strtoul take as a number: white space, a sign, and the
\* digits in base 8 for '%o', in base 16 (after an optional 0x) for '%x',
\* and for '%d' and '%u' in the base the text announces (0x: 16, a leading
\* 0: 8, otherwise 10); the span is not empty.
C9_StrtolSpans ==
    NumericSpans([k \in NumericKinds |-> IF k \in {"d", "u"} THEN 0
                                         ELSE IF k = "o" THEN 8 ELSE 16])

\* '%d' took the whole of "0x8".
C9_Witness ==
    /\ Done("match_one") /\ ret = 1
    /\ pattern = <<"%", "d">> /\ subject = <<"0", "x", "8">>
    /\ args[0] = [from |-> 1, to |-> 4]

NumberCalls == {"match_int", "match_octal", "match_hex"}

BaseOf(name) ==
    CASE name = "match_int" -> 0 [] name = "match_octal" -> 8
      [] name = "match_hex" -> 16

\* C8: an extractor returns -EINVAL exactly when no character of the
\* substring is taken as a number, -ERANGE exactly when some are and the
\* value is outside INT_MIN..INT_MAX, and 0 with *result the value
\* otherwise (-ENOMEM when malloc fails); *result keeps its value whenever
\* the return value is not 0.
C8_TypedFailures ==
    [][(pc = "call" /\ pc' = "done" /\ fn' \in NumberCalls) =>
          LET e == RefLongest(SubText, 1, BaseOf(fn'))
              v == RefValue(SubSeq(SubText, 1, e - 1), BaseOf(fn'))
              out == v < INT_MIN \/ v > INT_MAX
          IN  /\ ret' # 0 => result' = result
              /\ ~mallocOk => ret' = -ENOMEM
              /\ mallocOk =>
                    /\ ret' = -EINVAL <=> e = 1
                    /\ ret' = -ERANGE <=> (e > 1 /\ out)
                    /\ ret' = 0 <=> (e > 1 /\ ~out)
                    /\ ret' = 0 => result' = v
      ]_vars

\* A number below INT_MIN was refused and *result kept its value.
C8_Witness ==
    /\ pc = "done" /\ fn \in NumberCalls /\ mallocOk
    /\ ret = -ERANGE /\ result = 5
    /\ SubText # <<>> /\ SubText[1] = "-"

====
